---- MODULE Spec2Model ----
(***************************************************************************)
(* GeminiService (services/gemini_service.py): the adapter around the      *)
(* remote generative model.  Three coroutines, each with one await (the    *)
(* remote call): analyze_message, generate_unblock_question and            *)
(* generate_verification_challenge.                                        *)
(*                                                                         *)
(* Python values are records [t, s, l] (type tag, scalar payload, list     *)
(* items); a JSON document / returned dict adds d, its keys.  Exceptions   *)
(* are the names of their classes.  A reply text is a sequence of lexical  *)
(* tokens: "fence" is three backticks, "json" the word json, "ws" one      *)
(* whitespace character, "junk" text that is not JSON, "value" the text of *)
(* one complete JSON value.  The non-ASCII literals of the source are      *)
(* written in ASCII (the module language has no such characters):          *)
(*   BLOCKED_REASON  line 61, CAPITAL_QUESTION / CAPITAL_ANSWER 86-87,     *)
(*   "abuse" a reason given by the model, SAFE_REASON the sentinel of 29.  *)
(***************************************************************************)
EXTENDS Integers, Sequences, FiniteSets, TLC

\* ---- bounds ----
MaxTextLen == 3        \* tokens in a reply text
MaxIncorrect == 4      \* entries of incorrect_answers in a reply

\* ---- Python / JSON values ----
Keys == {"is_spam", "reason", "question", "answer",
         "correct_answer", "incorrect_answers", "options"}

Atom(t, s) == [t |-> t, s |-> s, l |-> <<>>]
Absent == Atom("absent", "")
PyNone == Atom("none", "")
Str(s) == Atom("str", s)
Bytes(s) == Atom("bytes", s)
Bool(b) == Atom("bool", IF b THEN "true" ELSE "false")
List(items) == [t |-> "list", s |-> "", l |-> items]

NoKeys == [k \in Keys |-> Absent]
Doc(v) == [t |-> v.t, s |-> v.s, l |-> v.l, d |-> NoKeys]
Dict(f) == [t |-> "dict", s |-> "", l |-> <<>>,
            d |-> [k \in Keys |-> IF k \in DOMAIN f THEN f[k] ELSE Absent]]
NoValue == Doc(Atom("unset", ""))

\* bool(x) of Python for the values the code tests
Truthy(v) == ~(v.t = "none" \/ (v.t \in {"str", "bytes"} /\ v.s = ""))

\* `not self.filter_model`, `not self.verification_model` (lines 21, 84, 105)
NotModel_Inverted(model) == Truthy(model)
NotModel(model) == ~Truthy(model)

\* ---- exceptions ----
NoExc == "none"
IsValueError(e) == e \in {"ValueError", "JSONDecodeError"}
Ret(v) == [kind |-> "return", value |-> v, exc |-> NoExc]
Raise(e) == [kind |-> "raise", value |-> NoValue, exc |-> e]

\* ---- literals of the source ----
PROMPT == Str("prompt_parts")
BLOCKED_REASON == "moderation failed, possibly inappropriate content"
CAPITAL_QUESTION == "What is the capital of China?"
CAPITAL_ANSWER == "Beijing"

Verdict(spam, reason) == Dict([is_spam |-> Bool(spam), reason |-> Str(reason)])
FilterDisabled == Verdict(FALSE, "AI filter disabled")
NoContent == Verdict(FALSE, "No content to analyze")
Blocked == Verdict(TRUE, BLOCKED_REASON)
AnalysisFailed == Verdict(FALSE, "Analysis failed")
UnblockFallback == Dict([question |-> Str(CAPITAL_QUESTION), answer |-> Str(CAPITAL_ANSWER)])
ChallengeFallback ==
    Dict([question |-> Str("1 + 1 = ?"), correct_answer |-> Str("2"),
          options |-> List(<<Str("1"), Str("2"), Str("3"), Str("4")>>)])

\* ---- reply texts ----
TokenClasses == {"fence", "json", "ws", "junk", "value"}
Tok(c) == [c |-> c, v |-> NoValue]
Val(doc) == [c |-> "value", v |-> doc]

DistractorPool == <<"B", "C", "D", "A", "B", "C">>
Distractors(n) == [i \in 1..n |-> Str(DistractorPool[i])]
ChallengeDoc(inc) ==
    Dict([question |-> Str("Q"), correct_answer |-> Str("A"), incorrect_answers |-> inc])

\* the JSON documents the remote model replies with
Docs ==
    {Verdict(TRUE, "abuse"), Verdict(FALSE, "SAFE_REASON"),
     Dict([is_spam |-> Bool(TRUE)]),
     Dict([is_spam |-> Str("yes"), reason |-> Str("")]),
     Dict([is_spam |-> Bool(TRUE), reason |-> PyNone]),
     Doc(PyNone), Doc(List(<<>>)), Doc(Str("ok")), Doc(Bool(TRUE)),
     Dict([question |-> Str("Q"), answer |-> Str("A")]),
     ChallengeDoc(Str("BCD")),
     ChallengeDoc(List(<<Str("B"), Str("B"), Str("A")>>)),
     Dict([question |-> Str("Q"), correct_answer |-> Str("A")]),
     Dict([question |-> Str("Q"), incorrect_answers |-> List(Distractors(3))]),
     Dict([correct_answer |-> Str("A"), incorrect_answers |-> List(Distractors(3))])}
    \cup {ChallengeDoc(List(Distractors(n))) : n \in 0..MaxIncorrect}

Texts ==
    UNION {{[i \in 1..n |-> IF sh[i] = "value" THEN Val(doc) ELSE Tok(sh[i])] :
               sh \in [1..n -> TokenClasses], doc \in Docs} : n \in 0..MaxTextLen}

\* number of consecutive whitespace tokens of s from position i
RECURSIVE WsRun(_, _)
WsRun(s, i) == IF i <= Len(s) /\ s[i].c = "ws" THEN 1 + WsRun(s, i + 1) ELSE 0

\* re.sub(r'```json\s*|\s*```', '', text): leftmost match first, the first
\* alternative before the second, matches removed
RECURSIVE ReSubFrom(_, _)
ReSubFrom(s, i) ==
    IF i > Len(s) THEN <<>>
    ELSE IF s[i].c = "fence" /\ i + 1 <= Len(s) /\ s[i + 1].c = "json"
         THEN ReSubFrom(s, i + 2 + WsRun(s, i + 2))
    ELSE IF i + WsRun(s, i) <= Len(s) /\ s[i + WsRun(s, i)].c = "fence"
         THEN ReSubFrom(s, i + WsRun(s, i) + 1)
    ELSE <<s[i]>> \o ReSubFrom(s, i + 1)
ReSub(s) == ReSubFrom(s, 1)

\* str.strip()
RECURSIVE StripRight(_)
StripRight(s) ==
    IF Len(s) > 0 /\ s[Len(s)].c = "ws" THEN StripRight(SubSeq(s, 1, Len(s) - 1)) ELSE s
Strip(s) == LET w == WsRun(s, 1) IN StripRight(SubSeq(s, w + 1, Len(s)))

\* json.loads(text): one JSON value, whitespace allowed around it
JsonOk(s) == Len(Strip(s)) = 1 /\ Strip(s)[1].c = "value"
JsonLoads(s) == IF JsonOk(s) THEN Ret(Strip(s)[1].v) ELSE Raise("JSONDecodeError")

\* ---- the remote model ----
\* len(response.candidates): the code reads only whether the list is empty
CandidateCounts == {0, 1}
TextExceptions == {"ValueError", "AttributeError", "IndexError"}
CallExceptions == {"ConnectionError"}

\* what generate_content_async does: raises, or returns a response whose
\* candidates list has `candidates` entries and whose text accessor raises
\* textExc or yields text
Reply(callExc, candidates, textExc, text) ==
    [callExc |-> callExc, candidates |-> candidates, textExc |-> textExc, text |-> text]
NoReply == Reply(NoExc, 0, NoExc, <<>>)
Replies ==
    {Reply(e, 0, NoExc, <<>>) : e \in CallExceptions}
    \cup {Reply(NoExc, c, e, <<>>) : c \in CandidateCounts, e \in TextExceptions}
    \cup {Reply(NoExc, c, NoExc, t) : c \in CandidateCounts, t \in Texts}

\* response.text
ResponseText(r) == IF r.textExc # NoExc THEN Raise(r.textExc) ELSE Ret(r.text)
\* 'response' in locals()
ResponseBound(r) == r.callExc = NoExc
\* hasattr(response, 'text'): False on AttributeError, other exceptions propagate
HasattrText(r) ==
    IF r.textExc = NoExc THEN Ret(TRUE)
    ELSE IF r.textExc = "AttributeError" THEN Ret(FALSE)
    ELSE Raise(r.textExc)

\* ---- analyze_message ----
\* PIL.Image.open(io.BytesIO(image_bytes)): an image, or an exception
Decodable(image_bytes) == image_bytes.s = "PNG"
ImageOpen(image_bytes) ==
    IF Decodable(image_bytes) THEN Ret(Atom("image", image_bytes.s))
    ELSE Raise("UnidentifiedImageError")

\* lines 24-42 with `if message.text is not None` for `if message.text`
BuildContent_TextNotNone(text, image_bytes) ==
    LET withText == IF text.t # "none" THEN <<text>> ELSE <<>>
    IN  IF ~Truthy(image_bytes) THEN [content |-> withText, decodes |-> 0]
        ELSE IF ImageOpen(image_bytes).kind = "return"
             THEN [content |-> withText \o <<ImageOpen(image_bytes).value>>, decodes |-> 1]
        ELSE [content |-> withText, decodes |-> 1]

\* lines 24-42 with the decode failure discarding the content built so far
BuildContent_DecodeAborts(text, image_bytes) ==
    LET withText == IF Truthy(text) THEN <<text>> ELSE <<>>
    IN  IF ~Truthy(image_bytes) THEN [content |-> withText, decodes |-> 0]
        ELSE IF ImageOpen(image_bytes).kind = "return"
             THEN [content |-> withText \o <<ImageOpen(image_bytes).value>>, decodes |-> 1]
        ELSE [content |-> <<>>, decodes |-> 1]

\* lines 24-42: the content list, and the number of decodes attempted
BuildContent(text, image_bytes) ==
    LET withText == IF Truthy(text) THEN <<text>> ELSE <<>>
    IN  IF ~Truthy(image_bytes) THEN [content |-> withText, decodes |-> 0]
        ELSE IF ImageOpen(image_bytes).kind = "return"
             THEN [content |-> withText \o <<ImageOpen(image_bytes).value>>, decodes |-> 1]
        ELSE [content |-> withText, decodes |-> 1]

\* lines 21-47 with the content built and tested before the disabled guard
AnalyzePrelude_ContentFirst(model, enabled, text, image_bytes) ==
    LET b == BuildContent(text, image_bytes)
    IN  IF b.content = <<>>
        THEN [next |-> "return", value |-> NoContent, content |-> <<>>,
              decodes |-> b.decodes]
        ELSE IF NotModel(model) \/ ~enabled
        THEN [next |-> "return", value |-> FilterDisabled, content |-> <<>>,
              decodes |-> b.decodes]
        ELSE [next |-> "call", value |-> NoValue,
              content |-> b.content \o <<PROMPT>>, decodes |-> b.decodes]

\* lines 21-47: up to the remote call.  next = "return": the coroutine returns
\* value; next = "call": it awaits the call with content
AnalyzePrelude(model, enabled, text, image_bytes) ==
    IF NotModel(model) \/ ~enabled
    THEN [next |-> "return", value |-> FilterDisabled, content |-> <<>>, decodes |-> 0]
    ELSE LET b == BuildContent(text, image_bytes)
         IN  IF b.content = <<>>
             THEN [next |-> "return", value |-> NoContent, content |-> <<>>,
                   decodes |-> b.decodes]
             ELSE [next |-> "call", value |-> NoValue,
                   content |-> b.content \o <<PROMPT>>, decodes |-> b.decodes]

\* lines 52-72 with the text read (line 63) before the candidates test (line 57)
AnalyzeTry_TextFirst(r) ==
    IF r.callExc # NoExc THEN Raise(r.callExc)
    ELSE IF ResponseText(r).kind = "raise" THEN Raise(r.textExc)
    ELSE IF r.candidates = 0 THEN Ret(Blocked)
    ELSE IF r.text = <<>> THEN Raise("ValueError")
    ELSE JsonLoads(Strip(ReSub(r.text)))

\* lines 52-72: the body of the try; a raise is an exception thrown inside it
AnalyzeTry(r) ==
    IF r.callExc # NoExc THEN Raise(r.callExc)
    ELSE IF r.candidates = 0 THEN Ret(Blocked)
    ELSE IF ResponseText(r).kind = "raise" THEN Raise(r.textExc)
    ELSE IF r.text = <<>> THEN Raise("ValueError")
    ELSE JsonLoads(Strip(ReSub(r.text)))

\* lines 73-81 without the return of line 81: the coroutine returns None
AnalyzeExcept_NoReturn(r) ==
    IF ResponseBound(r) /\ r.candidates # 0 /\ ResponseText(r).kind = "raise"
       /\ ~IsValueError(r.textExc)
    THEN Raise(r.textExc)
    ELSE Ret(Doc(PyNone))

\* lines 73-81: the handler; only a ValueError of the text accessor is caught
\* inside it
AnalyzeExcept(r) ==
    IF ResponseBound(r) /\ r.candidates # 0 /\ ResponseText(r).kind = "raise"
       /\ ~IsValueError(r.textExc)
    THEN Raise(r.textExc)
    ELSE Ret(AnalysisFailed)

AnalyzeResponse(r) ==
    IF AnalyzeTry(r).kind = "raise" THEN AnalyzeExcept(r) ELSE AnalyzeTry(r)

\* ---- generate_unblock_question ----
\* lines 94-102
UnblockResponse(r) ==
    IF r.callExc # NoExc \/ ResponseText(r).kind = "raise" THEN Ret(UnblockFallback)
    ELSE IF JsonLoads(r.text).kind = "raise" THEN Ret(UnblockFallback)
    ELSE JsonLoads(r.text)

\* ---- generate_verification_challenge ----
\* data[key], for the values json.loads yields
GetItem(data, key) ==
    IF data.t # "dict" THEN Raise("TypeError")
    ELSE IF data.d[key].t = "absent" THEN Raise("KeyError")
    ELSE Ret(data.d[key])

\* line 139 without the correct answer
ChallengeOptions_NoCorrect(incorrect_answers, correct_answer) == incorrect_answers.l

\* line 139: data['incorrect_answers'] + [correct_answer]
ChallengeOptions(incorrect_answers, correct_answer) ==
    incorrect_answers.l \o <<correct_answer>>

\* line 140: random.shuffle(options), p the permutation drawn
Shuffle(options, p) == [i \in 1..Len(options) |-> options[p[i]]]

\* the list handed to random.shuffle, <<>> when line 140 is not reached
ShuffleInput(r) ==
    IF r.callExc # NoExc \/ r.textExc # NoExc \/ ~JsonOk(Strip(ReSub(r.text))) THEN <<>>
    ELSE LET data == JsonLoads(Strip(ReSub(r.text))).value
         IN  IF GetItem(data, "correct_answer").kind = "raise" THEN <<>>
             ELSE IF GetItem(data, "incorrect_answers").kind = "raise" THEN <<>>
             ELSE IF data.d["incorrect_answers"].t # "list" THEN <<>>
             ELSE ChallengeOptions(data.d["incorrect_answers"], data.d["correct_answer"])

\* lines 127-146: the body of the try
ChallengeTry(r, p) ==
    IF r.callExc # NoExc THEN Raise(r.callExc)
    ELSE IF ResponseText(r).kind = "raise" THEN Raise(r.textExc)
    ELSE IF r.text = <<>> THEN Raise("ValueError")
    ELSE IF JsonLoads(Strip(ReSub(r.text))).kind = "raise" THEN Raise("JSONDecodeError")
    ELSE LET data == JsonLoads(Strip(ReSub(r.text))).value
         IN  IF GetItem(data, "correct_answer").kind = "raise"
             THEN GetItem(data, "correct_answer")
             ELSE IF GetItem(data, "incorrect_answers").kind = "raise"
             THEN GetItem(data, "incorrect_answers")
             ELSE IF data.d["incorrect_answers"].t # "list" THEN Raise("TypeError")
             ELSE IF GetItem(data, "question").kind = "raise" THEN GetItem(data, "question")
             ELSE Ret(Dict([question |-> data.d["question"],
                            correct_answer |-> data.d["correct_answer"],
                            options |-> List(Shuffle(ShuffleInput(r), p))]))

\* lines 147-157: the handler
ChallengeExcept(r) ==
    IF ResponseBound(r) /\ HasattrText(r).kind = "raise" THEN Raise(r.textExc)
    ELSE Ret(ChallengeFallback)

ChallengeResponse(r, p) ==
    IF ChallengeTry(r, p).kind = "raise" THEN ChallengeExcept(r) ELSE ChallengeTry(r, p)

\* ---- the service ----
VARIABLES
    filter_model,        \* self.filter_model: a model handle or None
    verification_model,  \* self.verification_model
    ENABLE_AI_FILTER,    \* config.ENABLE_AI_FILTER
    pc,                  \* "idle", "awaiting" (the remote call), "returned", "raised"
    op,                  \* the coroutine running: "analyze", "unblock", "challenge"
    message_text,        \* message.text of the running analyze_message
    image_bytes,         \* its image_bytes
    content,             \* the content list sent to the remote model
    decodes,             \* Image.open calls of the running coroutine
    calls,               \* generate_content_async calls of the running coroutine
    response,            \* what the remote call did
    result,              \* the value returned
    raised               \* the exception that escaped to the caller

vars == <<filter_model, verification_model, ENABLE_AI_FILTER, pc, op, message_text,
          image_bytes, content, decodes, calls, response, result, raised>>
config == <<filter_model, verification_model, ENABLE_AI_FILTER>>

MessageTexts == {PyNone, Str(""), Str("buy now!!!")}
ImageBytes == {PyNone, Bytes(""), Bytes("junk"), Bytes("PNG")}
ApiKeys == {"", "key"}

\* lines 11-18 and 159: the module-level instance, for each configuration
Init ==
    /\ \E key \in ApiKeys :
          /\ filter_model = IF key # "" THEN Atom("model", "gemini-2.5-flash") ELSE PyNone
          /\ verification_model =
                 IF key # "" THEN Atom("model", "gemini-2.5-flash-lite") ELSE PyNone
    /\ ENABLE_AI_FILTER \in BOOLEAN
    /\ pc = "idle"
    /\ op = "none"
    /\ message_text = PyNone
    /\ image_bytes = PyNone
    /\ content = <<>>
    /\ decodes = 0
    /\ calls = 0
    /\ response = NoReply
    /\ result = NoValue
    /\ raised = NoExc

\* the coroutine ends: it returns out.value or out.exc escapes
Finish(out) ==
    /\ pc' = IF out.kind = "return" THEN "returned" ELSE "raised"
    /\ result' = out.value
    /\ raised' = out.exc

\* lines 20-53: analyze_message(message, image_bytes) up to its await or return
AnalyzeMessage ==
    /\ pc = "idle"
    /\ \E text \in MessageTexts, image \in ImageBytes :
          /\ message_text' = text
          /\ image_bytes' = image
          /\ LET a == AnalyzePrelude(filter_model, ENABLE_AI_FILTER, text, image)
             IN  /\ content' = a.content
                 /\ decodes' = a.decodes
                 /\ IF a.next = "call"
                    THEN /\ pc' = "awaiting" /\ calls' = 1
                         /\ result' = NoValue /\ raised' = NoExc
                    ELSE calls' = 0 /\ Finish(Ret(a.value))
    /\ op' = "analyze"
    /\ response' = NoReply
    /\ UNCHANGED config

\* lines 53-81: the remote call completes with r, analyze_message runs to its end
AnalyzeMessageResume ==
    /\ pc = "awaiting" /\ op = "analyze"
    /\ \E r \in Replies : response' = r /\ Finish(AnalyzeResponse(r))
    /\ UNCHANGED <<config, op, message_text, image_bytes, content, decodes, calls>>

\* lines 83-95: generate_unblock_question() up to its await or return
GenerateUnblockQuestion ==
    /\ pc = "idle"
    /\ op' = "unblock"
    /\ message_text' = PyNone /\ image_bytes' = PyNone /\ decodes' = 0
    /\ response' = NoReply
    /\ IF NotModel(verification_model)
       THEN content' = <<>> /\ calls' = 0 /\ Finish(Ret(UnblockFallback))
       ELSE /\ content' = <<Str("unblock prompt")>> /\ calls' = 1
            /\ pc' = "awaiting" /\ result' = NoValue /\ raised' = NoExc
    /\ UNCHANGED config

\* lines 95-102
GenerateUnblockQuestionResume ==
    /\ pc = "awaiting" /\ op = "unblock"
    /\ \E r \in Replies : response' = r /\ Finish(UnblockResponse(r))
    /\ UNCHANGED <<config, op, message_text, image_bytes, content, decodes, calls>>

\* lines 104-128: generate_verification_challenge() up to its await or return
GenerateVerificationChallenge ==
    /\ pc = "idle"
    /\ op' = "challenge"
    /\ message_text' = PyNone /\ image_bytes' = PyNone /\ decodes' = 0
    /\ response' = NoReply
    /\ IF NotModel(verification_model)
       THEN content' = <<>> /\ calls' = 0 /\ Finish(Ret(ChallengeFallback))
       ELSE /\ content' = <<Str("challenge prompt")>> /\ calls' = 1
            /\ pc' = "awaiting" /\ result' = NoValue /\ raised' = NoExc
    /\ UNCHANGED config

\* lines 128-157, p the permutation random.shuffle draws
GenerateVerificationChallengeResume ==
    /\ pc = "awaiting" /\ op = "challenge"
    /\ \E r \in Replies : \E p \in Permutations(1..Len(ShuffleInput(r))) :
          response' = r /\ Finish(ChallengeResponse(r, p))
    /\ UNCHANGED <<config, op, message_text, image_bytes, content, decodes, calls>>

\* the caller takes the outcome; the service keeps no state between calls
CallerResumes ==
    /\ pc \in {"returned", "raised"}
    /\ pc' = "idle"
    /\ op' = "none"
    /\ message_text' = PyNone /\ image_bytes' = PyNone
    /\ content' = <<>> /\ decodes' = 0 /\ calls' = 0
    /\ response' = NoReply /\ result' = NoValue /\ raised' = NoExc
    /\ UNCHANGED config

Next ==
    \/ AnalyzeMessage
    \/ AnalyzeMessageResume
    \/ GenerateUnblockQuestion
    \/ GenerateUnblockQuestionResume
    \/ GenerateVerificationChallenge
    \/ GenerateVerificationChallengeResume
    \/ CallerResumes

Spec == Init /\ [][Next]_vars

\* ---- properties ----
Done == pc \in {"returned", "raised"}
Configured == Truthy(filter_model) /\ Truthy(verification_model)
Unconfigured == filter_model = PyNone /\ verification_model = PyNone
Outcome == [kind |-> IF pc = "raised" THEN "raise" ELSE "return",
            value |-> result, exc |-> raised]

\* a verdict with a boolean is_spam and a non-empty string reason
IsVerdict(v) ==
    /\ v.t = "dict"
    /\ v.d["is_spam"].t = "bool"
    /\ v.d["reason"].t = "str" /\ v.d["reason"].s # ""

\* the reply text after fence stripping parses as JSON
ReplyParses(r) ==
    /\ r.callExc = NoExc /\ r.textExc = NoExc /\ r.text # <<>>
    /\ JsonOk(Strip(ReSub(r.text)))
ReplyData(r) == Strip(ReSub(r.text))[1].v

\* an exception occurs in the call, the text retrieval, the fence stripping or the parse
FailsInTry(r) ==
    \/ r.callExc # NoExc
    \/ r.candidates > 0 /\ (r.textExc # NoExc \/ r.text = <<>> \/ ~JsonOk(Strip(ReSub(r.text))))

Count(seq, x) == Cardinality({i \in DOMAIN seq : seq[i] = x})
IsPermutation(a, b) ==
    /\ Len(a) = Len(b)
    /\ \A i \in DOMAIN a : Count(a, a[i]) = Count(b, a[i])

\* C1: no exception escapes analyze_message, generate_unblock_question or
\* generate_verification_challenge, whatever the remote model does: every
\* invocation ends by returning a value.
C1_NoExceptionEscapes == pc # "raised"

\* C2: every value generate_verification_challenge returns has exactly 4 options,
\* and a reply whose incorrect_answers has not exactly three entries yields the
\* fixed fallback.
C2_OptionsAlwaysFour ==
    (op = "challenge" /\ pc = "returned") =>
        /\ result.d["options"].t = "list"
        /\ Len(result.d["options"].l) = 4
        /\ (/\ ReplyParses(response)
            /\ ReplyData(response).t = "dict"
            /\ ReplyData(response).d["incorrect_answers"].t = "list"
            /\ Len(ReplyData(response).d["incorrect_answers"].l) # 3)
           => result = Dict([question |-> Str("1 + 1 = ?"), correct_answer |-> Str("2"),
                             options |-> List(<<Str("1"), Str("2"), Str("3"), Str("4")>>)])

\* C3 (as stated): every value analyze_message returns is a fully populated
\* verdict: boolean is_spam, reason a non-empty string.
C3_VerdictAlwaysPopulated ==
    (op = "analyze" /\ pc = "returned") => IsVerdict(result)

\* C3 (amended): every value analyze_message returns is one of the four fixed
\* verdicts, each fully populated, or the JSON value parsed from the
\* fence-stripped reply, returned as parsed whatever its shape.
C3_FixedVerdictOrParsedReply ==
    (op = "analyze" /\ pc = "returned") =>
        \/ /\ result \in {Verdict(FALSE, "AI filter disabled"),
                          Verdict(FALSE, "No content to analyze"),
                          Verdict(TRUE, BLOCKED_REASON),
                          Verdict(FALSE, "Analysis failed")}
           /\ IsVerdict(result)
        \/ /\ calls = 1 /\ response.candidates > 0
           /\ ReplyParses(response)
           /\ result = ReplyData(response)
C3_Witness ==
    /\ op = "analyze" /\ pc = "returned"
    /\ ReplyParses(response) /\ result = ReplyData(response)
    /\ ~IsVerdict(result)

\* C4: configured, enabled, content not empty, the call returns a response with
\* zero candidates: analyze_message returns the moderation-failed verdict with
\* is_spam true, whether or not the text accessor would raise.
C4_BlockedFailsClosed ==
    (/\ op = "analyze" /\ Done
     /\ Configured /\ ENABLE_AI_FILTER /\ calls = 1
     /\ response.callExc = NoExc /\ response.candidates = 0)
    => pc = "returned" /\ result = Verdict(TRUE, BLOCKED_REASON)
C4_Witness ==
    /\ op = "analyze" /\ pc = "returned" /\ calls = 1
    /\ response.callExc = NoExc /\ response.candidates = 0
    /\ response.textExc = "IndexError"
    /\ result = Verdict(TRUE, BLOCKED_REASON)

\* C5: once analyze_message has issued the call, any exception in the call, the
\* text retrieval, the fence stripping or the parse (an empty text included)
\* makes it return exactly {is_spam: false, reason: "Analysis failed"}.
C5_InfrastructureErrorFailsOpen ==
    (op = "analyze" /\ Done /\ calls = 1 /\ FailsInTry(response))
    => pc = "returned" /\ result = Verdict(FALSE, "Analysis failed")

\* C6: without a credential every invocation of the three operations returns
\* its fixed fallback and no remote call is attempted.
C6_UnconfiguredReturnsFallback ==
    Unconfigured =>
        /\ pc \notin {"awaiting", "raised"}
        /\ calls = 0
        /\ (pc = "returned" /\ op = "analyze") => result = Verdict(FALSE, "AI filter disabled")
        /\ (pc = "returned" /\ op = "unblock") =>
               result = Dict([question |-> Str(CAPITAL_QUESTION),
                              answer |-> Str(CAPITAL_ANSWER)])
        /\ (pc = "returned" /\ op = "challenge") =>
               result = Dict([question |-> Str("1 + 1 = ?"), correct_answer |-> Str("2"),
                              options |-> List(<<Str("1"), Str("2"), Str("3"), Str("4")>>)])
C6_Witness ==
    /\ Unconfigured /\ pc = "returned" /\ op = "challenge" /\ calls = 0
    /\ result.d["options"].l = <<Str("1"), Str("2"), Str("3"), Str("4")>>

\* C7: with the flag off or the adapter unconfigured, analyze_message returns
\* the AI-filter-disabled verdict for every text and image, both absent
\* included, and attempts neither an image decode nor a remote call.
C7_DisabledGuardFirst ==
    (op = "analyze" /\ pc # "idle" /\ (filter_model = PyNone \/ ~ENABLE_AI_FILTER))
    => /\ pc = "returned"
       /\ result = Verdict(FALSE, "AI filter disabled")
       /\ decodes = 0
       /\ calls = 0
C7_Witness ==
    /\ op = "analyze" /\ pc = "returned"
    /\ Configured /\ ~ENABLE_AI_FILTER
    /\ message_text = PyNone /\ image_bytes = PyNone
    /\ result = Verdict(FALSE, "AI filter disabled")

\* C8: configured and enabled, text absent or empty, image bytes absent or not
\* decodable: analyze_message returns the no-content verdict, no remote call.
C8_EmptyContentReturnsNoContent ==
    (/\ op = "analyze" /\ pc # "idle"
     /\ Configured /\ ENABLE_AI_FILTER
     /\ (message_text = PyNone \/ message_text = Str(""))
     /\ (image_bytes = PyNone \/ image_bytes = Bytes("") \/ ~Decodable(image_bytes)))
    => /\ pc = "returned"
       /\ result = Verdict(FALSE, "No content to analyze")
       /\ calls = 0
C8_Witness ==
    /\ op = "analyze" /\ pc = "returned"
    /\ Configured /\ ENABLE_AI_FILTER
    /\ message_text = Str("") /\ image_bytes = Bytes("junk")
    /\ decodes = 1
    /\ result = Verdict(FALSE, "No content to analyze")

\* C9: in every value generate_verification_challenge returns, correct_answer
\* is one of the options; for a reply with question, correct_answer and three
\* incorrect_answers, options is a permutation of the three plus the correct
\* answer, and question and correct_answer are the reply's.
C9_CorrectAnswerAmongOptions ==
    (op = "challenge" /\ pc = "returned") =>
        /\ \E i \in DOMAIN result.d["options"].l :
               result.d["options"].l[i] = result.d["correct_answer"]
        /\ (/\ ReplyParses(response)
            /\ ReplyData(response).t = "dict"
            /\ ReplyData(response).d["question"].t # "absent"
            /\ ReplyData(response).d["correct_answer"].t # "absent"
            /\ ReplyData(response).d["incorrect_answers"].t = "list"
            /\ Len(ReplyData(response).d["incorrect_answers"].l) = 3)
           => /\ result.d["question"] = ReplyData(response).d["question"]
              /\ result.d["correct_answer"] = ReplyData(response).d["correct_answer"]
              /\ IsPermutation(result.d["options"].l,
                               ReplyData(response).d["incorrect_answers"].l
                                   \o <<ReplyData(response).d["correct_answer"]>>)
C9_Witness ==
    /\ op = "challenge" /\ pc = "returned"
    /\ ReplyParses(response)
    /\ ReplyData(response) = ChallengeDoc(List(<<Str("B"), Str("C"), Str("D")>>))
    /\ result.d["options"].l = <<Str("C"), Str("A"), Str("D"), Str("B")>>

\* C10: configured and enabled, text present, image bytes that fail to decode:
\* analyze_message does not return at that point, makes exactly one remote call
\* with the text and the prompt and no image, and its outcome is the one the
\* response handling gives.
C10_DecodeFailureProceedsWithText ==
    (/\ op = "analyze" /\ pc # "idle"
     /\ Configured /\ ENABLE_AI_FILTER
     /\ Truthy(message_text)
     /\ Truthy(image_bytes) /\ ~Decodable(image_bytes))
    => /\ calls = 1
       /\ decodes = 1
       /\ content = <<message_text, PROMPT>>
       /\ pc = "awaiting" \/ Outcome = AnalyzeResponse(response)
       /\ (pc = "returned" /\ response.callExc = NoExc /\ response.candidates = 0)
              => result = Verdict(TRUE, BLOCKED_REASON)
       /\ (pc = "returned" /\ response.candidates > 0 /\ ReplyParses(response))
              => result = ReplyData(response)
C10_Witness ==
    /\ op = "analyze" /\ pc = "returned"
    /\ message_text = Str("buy now!!!") /\ image_bytes = Bytes("junk")
    /\ content = <<Str("buy now!!!"), PROMPT>>
    /\ calls = 1
    /\ result = Verdict(TRUE, "abuse")

====
